---- MODULE Spec2Model ----
(***************************************************************************)
(* Weekly class schedule (scripts/schedule.js): the FullCalendar event     *)
(* store as the occurrence registry, the Supabase "schedules" table as the *)
(* remote store, the schedule form, and the asynchronous handlers          *)
(* (loadUserSchedule, handleScheduleSubmit, handleScheduleDelete,          *)
(* eventDrop, eventResize) split at their await points.                    *)
(***************************************************************************)
EXTENDS Integers, Sequences, FiniteSets, TLC

(***************************************************************************)
(* Bounds of the model.                                                    *)
(***************************************************************************)
\* pending remote calls (promises not yet settled) at one time
MaxInFlight == 2
\* mutation requests (submit, drag, resize, delete) in one behaviour
MaxMutations == 2
\* reference dates explored by the projection specification
RefSpan == 13

\* attempts in the specification that is checked for progress
MaxLiveMutations == 1
\* checkbox changes in one behaviour of the tasks page
MaxToggles == 3

(***************************************************************************)
(* Values.                                                                 *)
(***************************************************************************)
\* a null id, an empty schedule-id field
NoId == 0
\* Number.NaN, the result of parseInt on a non-numeric string
NaN == -1
\* a character of a time or day string: "0".."9" are 0..9 and ":" is 10
\* (the order of the character codes 48..58)
Colon == 10
EmptyStr == << >>
\* null in the place of a string
Missing == <<NaN>>

T0000 == <<0, 0, Colon, 0, 0>>
T0900 == <<0, 9, Colon, 0, 0>>
T1030 == <<1, 0, Colon, 3, 0>>
T1100 == <<1, 1, Colon, 0, 0>>
T1400 == <<1, 4, Colon, 0, 0>>
T1530 == <<1, 5, Colon, 3, 0>>
T2359 == <<2, 3, Colon, 5, 9>>

\* day number (days since 1970-01-01, local time) of the first reference date
FirstRefDay == 20000

InvalidDate == [day |-> NaN, hh |-> NaN, mm |-> NaN, ss |-> NaN]

(***************************************************************************)
(* Built-ins of the language, as the code uses them.                       *)
(***************************************************************************)
\* Date.prototype.getDay: 0 = Sunday; day 0 (1970-01-01) was a Thursday
getDay(date) == (date.day + 4) % 7

\* index of the Sunday-anchored week a date lies in
WeekOf(date) == (date.day + 4) \div 7

\* date.setDate(date.getDate() + distance): MakeDay carries any day-of-month
\* overflow into the neighbouring months, so the day number shifts by distance
AddDays(date, distance) == [date EXCEPT !.day = date.day + distance]

\* date.setHours(0, 0, 0, 0)
ResetTime(date) == [date EXCEPT !.hh = 0, !.mm = 0, !.ss = 0]

\* date.setHours(h, m): seconds kept, overflow carried into the day, NaN
\* makes the date invalid
setHours(date, h, m) ==
    IF date = InvalidDate \/ h = NaN \/ m = NaN THEN InvalidDate
    ELSE LET total == h * 60 + m IN
         [day |-> date.day + (total \div 1440),
          hh  |-> (total \div 60) % 24,
          mm  |-> total % 60,
          ss  |-> date.ss]

\* n.toString().padStart(2, '0') for 0 <= n <= 99
PadStart2(n) == IF n < 10 THEN <<0, n>> ELSE <<n \div 10, n % 10>>

RECURSIVE LeadingDigits(_)
LeadingDigits(s) ==
    IF s = << >> \/ Head(s) = Colon THEN << >>
    ELSE <<Head(s)>> \o LeadingDigits(Tail(s))

RECURSIVE DigitsValue(_, _)
DigitsValue(s, acc) ==
    IF s = << >> THEN acc ELSE DigitsValue(Tail(s), acc * 10 + Head(s))

\* parseInt(s): the value of the leading digits, NaN when there are none
parseInt(s) ==
    IF LeadingDigits(s) = << >> THEN NaN ELSE DigitsValue(LeadingDigits(s), 0)

RECURSIVE AfterColon(_)
AfterColon(s) ==
    IF s = << >> THEN << >>
    ELSE IF Head(s) = Colon THEN Tail(s) ELSE AfterColon(Tail(s))

HasColon(s) == \E i \in 1..Len(s) : s[i] = Colon

\* s.split(':')[0]
Part0(s) == LeadingDigits(s)

\* s.split(':')[1]; undefined (parsed as NaN) when s holds no colon
Part1(s) == IF HasColon(s) THEN LeadingDigits(AfterColon(s)) ELSE << >>

\* a < b on strings: lexicographic on the character codes
RECURSIVE StrLess(_, _)
StrLess(a, b) ==
    IF b = << >> THEN FALSE
    ELSE IF a = << >> THEN TRUE
    ELSE IF Head(a) # Head(b) THEN Head(a) < Head(b)
    ELSE StrLess(Tail(a), Tail(b))

(***************************************************************************)
(* schedule.js: pure helpers.                                              *)
(***************************************************************************)
formatTimeOnTheHour(date) == PadStart2(date.hh) \o <<Colon, 0, 0>>

formatTime(date) == PadStart2(date.hh) \o <<Colon>> \o PadStart2(date.mm)

getDateForDayOfWeekSwapped(dayOfWeek, now) ==
    IF dayOfWeek = NaN THEN InvalidDate
    ELSE ResetTime(AddDays(now, getDay(now) - dayOfWeek))

getDateForDayOfWeekNext(dayOfWeek, now) ==
    IF dayOfWeek = NaN THEN InvalidDate
    ELSE ResetTime(AddDays(now, (dayOfWeek - getDay(now) + 7) % 7))

getDateForDayOfWeek(dayOfWeek, now) ==
    IF dayOfWeek = NaN THEN InvalidDate
    ELSE LET currentDay == getDay(now)
             distance   == dayOfWeek - currentDay
         IN  ResetTime(AddDays(now, distance))

\* the start and end instants handleScheduleSubmit and loadUserSchedule
\* compute for a day number and two time strings
ProjectStart(dayNumber, startTime, now) ==
    setHours(getDateForDayOfWeek(dayNumber, now),
             parseInt(Part0(startTime)), parseInt(Part1(startTime)))

ProjectEndFromNow(dayNumber, endTime, now) ==
    setHours(ResetTime(now),
             parseInt(Part0(endTime)), parseInt(Part1(endTime)))

ProjectEnd(dayNumber, endTime, now) ==
    setHours(getDateForDayOfWeek(dayNumber, now),
             parseInt(Part0(endTime)), parseInt(Part1(endTime)))

(***************************************************************************)
(* State.                                                                  *)
(***************************************************************************)
VARIABLES
    store,              \* rows of the remote "schedules" table
    nextId,             \* the id the table gives the next inserted row
    calendar,           \* events held by the FullCalendar instance
    nextKey,            \* FullCalendar's internal id of the next added event
    currentScheduleId,  \* schedule.js:9
    form,               \* fields of #schedule-form
    modal,              \* #schedule-modal is displayed
    deleteBtn,          \* #delete-schedule-btn is displayed
    pending,            \* awaited calls that have not settled yet
    alertMsg,           \* text of the alert() shown by the last step, or ""
    now,                \* the clock: new Date()
    mutations,          \* mutation requests made so far
    last,               \* history: the continuation that ran last, "" after a user step
    pIn,                \* projection specification: entry and reference date
    pOut,               \* projection specification: the projected occurrence
    pPrev,              \* projection specification: the occurrence of the call before
    pTrip,              \* projection specification: the occurrence listed back
    tasks,              \* tasks page: completed of each row of table "tasks"
    taskItems,          \* tasks page: checkbox and styling of each .task-item
    taskCalls,          \* tasks page: awaited updates that have not settled
    toggles             \* tasks page: checkbox changes made so far

vars == <<store, nextId, calendar, nextKey, currentScheduleId, form, modal,
          deleteBtn, pending, alertMsg, now, mutations, last, pIn, pOut, pPrev,
          pTrip, tasks, taskItems, taskCalls, toggles>>

mainVars == <<store, nextId, calendar, nextKey, currentScheduleId, form, modal,
              deleteBtn, pending, alertMsg, now, mutations, last>>

projVars == <<pIn, pOut, pPrev, pTrip>>

taskVars == <<tasks, taskItems, taskCalls, toggles>>

User == "u1"

MsgRequired == "Please fill in all required fields."
MsgSaveFailed == "Failed to save schedule. Please try again."
MsgDeleteFailed == "Failed to delete schedule. Please try again."
MsgUpdateFailed == "Failed to update schedule"
MsgUpdated == "Schedule updated successfully"

\* the ids of the elements the schedule page's script looks up
ElementIds ==
    { "calendar", "schedule-form", "schedule-modal", "schedule-modal-title",
      "delete-schedule-btn", "add-schedule-btn", "schedule-id", "class-name",
      "class-day", "class-start", "class-end", "class-room",
      "class-professor" }

\* showError(elementId, message): the text the user gets to see. The element
\* is looked up by elementId; when there is none, nothing is shown
showError(elementId, message) ==
    IF elementId \in ElementIds THEN message ELSE ""

\* showSuccess(elementId, message), likewise
showSuccess(elementId, message) ==
    IF elementId \in ElementIds THEN message ELSE ""

\* the clock of the main specification: a Wednesday, 10:15:30
NowMain == [day |-> FirstRefDay - 2, hh |-> 10, mm |-> 15, ss |-> 30]

InitStore ==
    { [id |-> 1, user_id |-> "u1", class_name |-> "Algorithms", day |-> 1,
       start_time |-> T0900, end_time |-> T1030, room |-> "B12",
       professor |-> "Dr A"],
      [id |-> 3, user_id |-> "u2", class_name |-> "Physics", day |-> 1,
       start_time |-> T0900, end_time |-> T1030, room |-> "C1",
       professor |-> ""] }

\* a row of the user without a start time
BadRow ==
    [id |-> 2, user_id |-> "u1", class_name |-> "Statistics", day |-> 2,
     start_time |-> Missing, end_time |-> T1530, room |-> "A3",
     professor |-> ""]

NoEvent ==
    [key |-> 0, id |-> NoId, title |-> "", start |-> InvalidDate,
     end |-> InvalidDate, room |-> "", professor |-> "", scheduleId |-> NoId]

EmptyForm ==
    [id |-> NoId, name |-> "", day |-> EmptyStr, start |-> EmptyStr,
     end |-> EmptyStr, room |-> "", professor |-> ""]

\* a pending call and the locals its continuation closes over
Call(kind) ==
    [kind |-> kind, seq |-> mutations, id |-> NoId, user |-> "", name |-> "", day |-> EmptyStr,
     dayNum |-> NaN, start |-> EmptyStr, end |-> EmptyStr, room |-> "",
     professor |-> "", snap |-> NoEvent]

\* String(n) for 0 <= n <= 99
NumToStr(n) == IF n < 10 THEN <<n>> ELSE <<n \div 10, n % 10>>

(***************************************************************************)
(* The view binding (FullCalendar) and the form, as the code uses them.    *)
(***************************************************************************)
\* minutes since day 0
Instant(date) == date.day * 1440 + date.hh * 60 + date.mm

DateOfInstant(t, ss) ==
    [day |-> t \div 1440, hh |-> (t % 1440) \div 60, mm |-> t % 60, ss |-> ss]

\* the date of weekday dow in the displayed week, at hh:mm
SlotDate(dow, hh, mm) ==
    [day |-> now.day - getDay(now) + dow, hh |-> hh, mm |-> mm, ss |-> 0]

\* where the user may drop a dragged event (its new start)
DropTargets == { SlotDate(3, 14, 0), SlotDate(1, 9, 0) }

\* where the user may drag the lower edge of an event to (its new end time)
ResizeEnds == { <<11, 0>> }

\* empty slots the user may select: start and end
SelectSlots == { [start |-> SlotDate(3, 9, 0), end |-> SlotDate(3, 10, 30)] }

\* what the user may type into the form before submitting it
FormInputs ==
    { [name |-> "Databases", day |-> <<3>>, start |-> T0900, end |-> T1030],
      [name |-> "", day |-> <<3>>, start |-> T0900, end |-> T1030],
      [name |-> "Databases", day |-> EmptyStr, start |-> T0900, end |-> T1030],
      [name |-> "Databases", day |-> <<3>>, start |-> EmptyStr, end |-> T1030],
      [name |-> "Databases", day |-> <<3>>, start |-> T0900, end |-> EmptyStr],
      [name |-> "Databases", day |-> <<1>>, start |-> T1400, end |-> T1030] }

\* calendar.getEventById(id): the first event whose public id is String(id);
\* an event added with a null id has the public id "" and is never found
EventsById(id) == { e \in calendar : id # NoId /\ e.id = id }

HasEventById(id) == EventsById(id) # {}

getEventById(id) ==
    CHOOSE e \in EventsById(id) : \A o \in EventsById(id) : e.key <= o.key

\* form.reset(): every field back to its default
FormReset == EmptyForm

\* info.revert() of eventDrop and eventResize: the event as it was before the
\* interaction is merged back into the event store under its internal id
RevertKeepEnd(cal, snap) ==
    { IF e.key = snap.key THEN [e EXCEPT !.start = snap.start] ELSE e : e \in cal }

Revert(cal, snap) == { e \in cal : e.key # snap.key } \cup { snap }

\* the event object handleScheduleSubmit passes to calendar.addEvent
SubmitEvent(p, id, key) ==
    [key |-> key, id |-> id, title |-> p.name,
     start |-> ProjectStart(parseInt(p.day), p.start, now),
     end |-> ProjectEnd(parseInt(p.day), p.end, now),
     room |-> p.room, professor |-> p.professor, scheduleId |-> id]

\* the event object loadUserSchedule builds for a row
LoadEvent(row, key) ==
    [key |-> key, id |-> row.id, title |-> row.class_name,
     start |-> ProjectStart(parseInt(NumToStr(row.day)), row.start_time, now),
     end |-> ProjectEnd(parseInt(NumToStr(row.day)), row.end_time, now),
     room |-> row.room, professor |-> row.professor, scheduleId |-> row.id]

\* schedule.start_time.split(':') and schedule.end_time.split(':') of lines
\* 269-270 throw a TypeError on a row whose time is null
MapThrows(row) == row.start_time = Missing \/ row.end_time = Missing

\* rows in the order the table returns them: by id
RowRank(rows, r) == Cardinality({ o \in rows : o.id < r.id })

(***************************************************************************)
(* The remote table.                                                       *)
(***************************************************************************)
\* .update(fields).eq('id', id) of the form: no row matched is no error
StoreUpdateForm(rows, p) ==
    { IF r.id = p.id
      THEN [r EXCEPT !.class_name = p.name, !.day = parseInt(p.day),
                     !.start_time = p.start, !.end_time = p.end,
                     !.room = p.room, !.professor = p.professor]
      ELSE r : r \in rows }

\* .update({day, start_time, end_time}).eq('id', id) of eventDrop
StoreUpdateDrop(rows, p) ==
    { IF r.id = p.id
      THEN [r EXCEPT !.day = p.dayNum, !.start_time = p.start,
                     !.end_time = p.end]
      ELSE r : r \in rows }

StoreUpdateResizeWithStart(rows, p) ==
    { IF r.id = p.id
      THEN [r EXCEPT !.start_time = p.start, !.end_time = p.end]
      ELSE r : r \in rows }

\* .update({end_time}).eq('id', id) of eventResize
StoreUpdateResize(rows, p) ==
    { IF r.id = p.id THEN [r EXCEPT !.end_time = p.end] ELSE r : r \in rows }

\* the columns of a row that an update may set
Fields ==
    {"class_name", "day", "start_time", "end_time", "room", "professor"}

\* the keys of the object handed to .update(): lines 368-375 (form),
\* 111-115 (eventDrop) and 135-137 (eventResize)
UpdateFields(p) ==
    CASE p.kind = "resize" -> {"end_time"}
      [] p.kind = "drop" -> {"day", "start_time", "end_time"}
      [] p.kind = "update" -> Fields
      [] OTHER -> {}

\* the value the object handed to .update() gives key f
FieldValue(p, f) ==
    CASE f = "class_name" -> p.name
      [] f = "day" -> IF p.kind = "drop" THEN p.dayNum ELSE parseInt(p.day)
      [] f = "start_time" -> p.start
      [] f = "end_time" -> p.end
      [] f = "room" -> p.room
      [] f = "professor" -> p.professor

InsertedRowEndAsStart(p, id) ==
    [id |-> id, user_id |-> p.user, class_name |-> p.name,
     day |-> parseInt(p.day), start_time |-> p.end, end_time |-> p.end,
     room |-> p.room, professor |-> p.professor]

\* .insert([...]).select(): the row with the id the table gives it
InsertedRow(p, id) ==
    [id |-> id, user_id |-> p.user, class_name |-> p.name,
     day |-> parseInt(p.day), start_time |-> p.start, end_time |-> p.end,
     room |-> p.room, professor |-> p.professor]

\* the task items renderTasks builds for the rows: tasks.js lines 99-101
Rendered(rows) ==
    [id \in DOMAIN rows |-> [checked |-> rows[id], styled |-> rows[id]]]

\* the tasks page is not in use: one task, not completed, nothing awaited
TasksIdle ==
    /\ tasks = [id \in {1} |-> FALSE]
    /\ taskItems = Rendered(tasks)
    /\ taskCalls = {}
    /\ toggles = 0

\* no occurrence computed yet
NoOccurrence == [start |-> InvalidDate, end |-> InvalidDate, done |-> FALSE]

(***************************************************************************)
(* Initial state: DOMContentLoaded has run; the calendar is empty and      *)
(* loadUserSchedule waits for the list of the user's rows.                 *)
(***************************************************************************)
InitWith(rows) ==
    /\ store = rows
    /\ nextId = 4
    /\ calendar = {}
    /\ nextKey = 1
    /\ currentScheduleId = NoId
    /\ form = EmptyForm
    /\ modal = FALSE
    /\ deleteBtn = FALSE
    /\ pending = { [kind |-> "list", seq |-> 0, id |-> NoId, user |-> User,
                    name |-> "", day |-> EmptyStr, dayNum |-> NaN,
                    start |-> EmptyStr, end |-> EmptyStr, room |-> "",
                    professor |-> "", snap |-> NoEvent] }
    /\ alertMsg = ""
    /\ now = NowMain
    /\ mutations = 0
    /\ last = ""
    /\ pIn = [day |-> 0, start |-> EmptyStr, end |-> EmptyStr, ref |-> NowMain]
    /\ pOut = NoOccurrence
    /\ pPrev = NoOccurrence
    /\ pTrip = NoOccurrence
    /\ TasksIdle

Init == InitWith(InitStore)

CanIssue == Cardinality(pending) < MaxInFlight /\ mutations < MaxMutations

(***************************************************************************)
(* loadUserSchedule                                                        *)
(***************************************************************************)
LoadOkUnfiltered(p) ==
    /\ last' = ""
    /\ p \in pending /\ p.kind = "list"
    /\ calendar' = calendar \cup
           { LoadEvent(r, nextKey + RowRank(store, r)) : r \in store }
    /\ nextKey' = nextKey + Cardinality(store)
    /\ pending' = pending \ {p}
    /\ alertMsg' = ""
    /\ UNCHANGED <<store, nextId, currentScheduleId, form, modal, deleteBtn,
                   now, mutations, projVars, taskVars>>

\* the list returned without error: lines 259-296. When the callback of
\* data.map throws, the catch block of lines 297-299 logs the error and no
\* event has been added
LoadOk(p) ==
    /\ last' = ""
    /\ p \in pending /\ p.kind = "list"
    /\ LET data == { r \in store : r.user_id = p.user } IN
       IF \E r \in data : MapThrows(r)
       THEN UNCHANGED <<calendar, nextKey>>
       ELSE /\ calendar' = calendar \cup
                   { LoadEvent(r, nextKey + RowRank(data, r)) : r \in data }
            /\ nextKey' = nextKey + Cardinality(data)
    /\ pending' = pending \ {p}
    /\ alertMsg' = ""
    /\ UNCHANGED <<store, nextId, currentScheduleId, form, modal, deleteBtn,
                   now, mutations, projVars, taskVars>>

LoadFail(p) ==
    /\ last' = ""
    /\ p \in pending /\ p.kind = "list"
    /\ pending' = pending \ {p}
    /\ alertMsg' = ""
    /\ UNCHANGED <<store, nextId, calendar, nextKey, currentScheduleId, form,
                   modal, deleteBtn, now, mutations, projVars, taskVars>>

(***************************************************************************)
(* openScheduleModal, the select callback, the close buttons               *)
(***************************************************************************)
\* eventClick or the edit button of an event: openScheduleModal(event).
\* extendedProps holds no day, start_time or end_time, so these three fields
\* are set to undefined, which a select and a time input show as empty
OpenEdit(e) ==
    /\ last' = ""
    /\ e \in calendar
    /\ form' = [FormReset EXCEPT !.id = e.scheduleId, !.name = e.title,
                                 !.room = e.room, !.professor = e.professor]
    /\ deleteBtn' = TRUE
    /\ currentScheduleId' = e.scheduleId
    /\ modal' = TRUE
    /\ alertMsg' = ""
    /\ UNCHANGED <<store, nextId, calendar, nextKey, pending, now, mutations,
                   projVars, taskVars>>

\* the add button: openScheduleModal()
OpenAdd ==
    /\ last' = ""
    /\ form' = FormReset
    /\ deleteBtn' = FALSE
    /\ currentScheduleId' = NoId
    /\ modal' = TRUE
    /\ alertMsg' = ""
    /\ UNCHANGED <<store, nextId, calendar, nextKey, pending, now, mutations,
                   projVars, taskVars>>

\* select: the user marks an empty slot
Select(slot) ==
    /\ last' = ""
    /\ currentScheduleId' = NoId
    /\ form' = [FormReset EXCEPT !.start = formatTime(slot.start),
                                 !.end = formatTime(slot.end)]
    /\ deleteBtn' = FALSE
    /\ modal' = TRUE
    /\ alertMsg' = ""
    /\ UNCHANGED <<store, nextId, calendar, nextKey, pending, now, mutations,
                   projVars, taskVars>>

CloseModalDiscarding ==
    /\ last' = ""
    /\ modal
    /\ modal' = FALSE
    /\ alertMsg' = ""
    /\ calendar' = { e \in calendar : e.id # currentScheduleId }
    /\ UNCHANGED <<store, nextId, nextKey, currentScheduleId, form, deleteBtn,
                   pending, now, mutations, projVars, taskVars>>

\* a .close-modal button
CloseModal ==
    /\ last' = ""
    /\ modal
    /\ modal' = FALSE
    /\ alertMsg' = ""
    /\ UNCHANGED <<store, nextId, calendar, nextKey, currentScheduleId, form,
                   deleteBtn, pending, now, mutations, projVars, taskVars>>

(***************************************************************************)
(* handleScheduleSubmit                                                    *)
(***************************************************************************)
\* the user fills the form and submits it: lines 343-346, up to the await of
\* supabase.auth.getUser()
Submit(in) ==
    /\ last' = ""
    /\ modal
    /\ CanIssue
    /\ form' = [form EXCEPT !.name = in.name, !.day = in.day,
                            !.start = in.start, !.end = in.end]
    /\ mutations' = mutations + 1
    /\ pending' = pending \cup { [Call("auth") EXCEPT !.seq = mutations + 1] }
    /\ alertMsg' = ""
    /\ UNCHANGED <<store, nextId, calendar, nextKey, currentScheduleId, modal,
                   deleteBtn, now, projVars, taskVars>>

\* getUser() yields no user: line 347
SubmitNoUser(p) ==
    /\ last' = "SubmitNoUser"
    /\ p \in pending /\ p.kind = "auth"
    /\ pending' = pending \ {p}
    /\ alertMsg' = ""
    /\ UNCHANGED <<store, nextId, calendar, nextKey, currentScheduleId, form,
                   modal, deleteBtn, now, mutations, projVars, taskVars>>

\* line 358
RequiredMissingNoTitle(f) ==
    f.day = EmptyStr \/ f.start = EmptyStr \/ f.end = EmptyStr

RequiredMissing(f) ==
    f.name = "" \/ f.day = EmptyStr \/ f.start = EmptyStr \/ f.end = EmptyStr

\* the remote call lines 364-400 issue for the fields read from the form
SubmitCall(p, f, user) ==
    [p EXCEPT !.kind = IF f.id # NoId THEN "update" ELSE "insert",
              !.id = f.id, !.user = user, !.name = f.name, !.day = f.day,
              !.start = f.start, !.end = f.end, !.room = f.room,
              !.professor = f.professor]

SubmitResumeOptimistic(p) ==
    /\ last' = "SubmitResume"
    /\ p \in pending /\ p.kind = "auth"
    /\ IF RequiredMissing(form)
       THEN /\ alertMsg' = MsgRequired
            /\ pending' = pending \ {p}
            /\ UNCHANGED <<calendar, nextKey>>
       ELSE /\ alertMsg' = ""
            /\ pending' = (pending \ {p}) \cup { SubmitCall(p, form, User) }
            /\ calendar' = calendar \cup
                   { SubmitEvent(SubmitCall(p, form, User), NoId, nextKey) }
            /\ nextKey' = nextKey + 1
    /\ UNCHANGED <<store, nextId, currentScheduleId, form, modal, deleteBtn,
                   now, mutations, projVars, taskVars>>

\* getUser() yields the user: lines 349-400, up to the await of the update
\* or of the insert
SubmitResume(p) ==
    /\ last' = "SubmitResume"
    /\ p \in pending /\ p.kind = "auth"
    /\ IF RequiredMissing(form)
       THEN /\ alertMsg' = MsgRequired
            /\ pending' = pending \ {p}
       ELSE /\ alertMsg' = ""
            /\ pending' = (pending \ {p}) \cup { SubmitCall(p, form, User) }
    /\ UNCHANGED <<store, nextId, calendar, nextKey, currentScheduleId, form,
                   modal, deleteBtn, now, mutations, projVars, taskVars>>

\* lines 380-384
RemoveExisting(cal, id) ==
    IF HasEventById(id) THEN cal \ { getEventById(id) } ELSE cal

\* the update succeeded: lines 378-439
UpdateOk(p) ==
    /\ last' = "UpdateOk"
    /\ p \in pending /\ p.kind = "update"
    /\ store' = StoreUpdateForm(store, p)
    /\ calendar' = RemoveExisting(calendar, p.id) \cup
                   { SubmitEvent(p, currentScheduleId, nextKey) }
    /\ nextKey' = nextKey + 1
    /\ modal' = FALSE
    /\ pending' = pending \ {p}
    /\ alertMsg' = ""
    /\ UNCHANGED <<nextId, currentScheduleId, form, deleteBtn, now, mutations,
                   projVars, taskVars>>

\* lines 405-407: the id of the first returned row, when there is one
NewCurrentIdStale(data) == currentScheduleId

NewCurrentId(data) ==
    IF data # {} THEN (CHOOSE r \in data : TRUE).id ELSE currentScheduleId

\* the insert succeeded: lines 402-439
InsertOk(p) ==
    /\ last' = "InsertOk"
    /\ p \in pending /\ p.kind = "insert"
    /\ LET data == { InsertedRow(p, nextId) } IN
       /\ store' = store \cup data
       /\ currentScheduleId' = NewCurrentId(data)
       /\ calendar' = calendar \cup
              { SubmitEvent(p, NewCurrentId(data), nextKey) }
    /\ nextId' = nextId + 1
    /\ nextKey' = nextKey + 1
    /\ modal' = FALSE
    /\ pending' = pending \ {p}
    /\ alertMsg' = ""
    /\ UNCHANGED <<form, deleteBtn, now, mutations, projVars, taskVars>>

SaveFailSilent(p) ==
    /\ last' = IF p.kind = "insert" THEN "InsertFail" ELSE "UpdateFail"
    /\ p \in pending /\ p.kind \in {"update", "insert"}
    /\ alertMsg' = ""
    /\ pending' = pending \ {p}
    /\ UNCHANGED <<store, nextId, calendar, nextKey, currentScheduleId, form,
                   modal, deleteBtn, now, mutations, projVars, taskVars>>

\* the update or the insert failed: lines 440-443
SaveFail(p) ==
    /\ last' = IF p.kind = "insert" THEN "InsertFail" ELSE "UpdateFail"
    /\ p \in pending /\ p.kind \in {"update", "insert"}
    /\ alertMsg' = MsgSaveFailed
    /\ pending' = pending \ {p}
    /\ UNCHANGED <<store, nextId, calendar, nextKey, currentScheduleId, form,
                   modal, deleteBtn, now, mutations, projVars, taskVars>>

(***************************************************************************)
(* handleScheduleDelete                                                    *)
(***************************************************************************)
DeleteCall(id) == [Call("delete") EXCEPT !.seq = mutations + 1, !.id = id]

DeleteIconClickOptimistic(e, c1, c2) ==
    /\ last' = ""
    /\ e \in calendar
    /\ currentScheduleId' = e.scheduleId
    /\ alertMsg' = ""
    /\ IF c1 /\ e.scheduleId # NoId /\ c2
       THEN /\ CanIssue
            /\ mutations' = mutations + 1
            /\ pending' = pending \cup { DeleteCall(e.scheduleId) }
            /\ calendar' = calendar \ {e}
       ELSE UNCHANGED <<mutations, pending, calendar>>
    /\ UNCHANGED <<store, nextId, nextKey, form, modal, deleteBtn, now,
                   projVars, taskVars>>

\* the delete button of an event (lines 181-187), then handleScheduleDelete
\* up to the await of the delete (lines 449-460); c1 and c2 are the user's
\* answers to the two confirm() dialogs
DeleteIconClick(e, c1, c2) ==
    /\ last' = ""
    /\ e \in calendar
    /\ currentScheduleId' = e.scheduleId
    /\ alertMsg' = ""
    /\ IF c1 /\ e.scheduleId # NoId /\ c2
       THEN /\ CanIssue
            /\ mutations' = mutations + 1
            /\ pending' = pending \cup { DeleteCall(e.scheduleId) }
       ELSE UNCHANGED <<mutations, pending>>
    /\ UNCHANGED <<store, nextId, calendar, nextKey, form, modal, deleteBtn,
                   now, projVars, taskVars>>

\* the delete button of the modal: handleScheduleDelete up to the await
DeleteButtonClick(c) ==
    /\ last' = ""
    /\ modal /\ deleteBtn
    /\ alertMsg' = ""
    /\ IF currentScheduleId # NoId /\ c
       THEN /\ CanIssue
            /\ mutations' = mutations + 1
            /\ pending' = pending \cup { DeleteCall(currentScheduleId) }
       ELSE UNCHANGED <<mutations, pending>>
    /\ UNCHANGED <<store, nextId, calendar, nextKey, currentScheduleId, form,
                   modal, deleteBtn, now, projVars, taskVars>>

\* the delete succeeded: lines 462-471; the event is looked up by the value
\* currentScheduleId has when the call settles
DeleteOk(p) ==
    /\ last' = "DeleteOk"
    /\ p \in pending /\ p.kind = "delete"
    /\ store' = { r \in store : r.id # p.id }
    /\ calendar' = RemoveExisting(calendar, currentScheduleId)
    /\ modal' = FALSE
    /\ pending' = pending \ {p}
    /\ alertMsg' = ""
    /\ UNCHANGED <<nextId, nextKey, currentScheduleId, form, deleteBtn, now,
                   mutations, projVars, taskVars>>

DeleteFailRemoving(p) ==
    /\ last' = "DeleteFail"
    /\ p \in pending /\ p.kind = "delete"
    /\ alertMsg' = MsgDeleteFailed
    /\ calendar' = { e \in calendar : e.id # p.id }
    /\ pending' = pending \ {p}
    /\ UNCHANGED <<store, nextId, nextKey, currentScheduleId, form, modal,
                   deleteBtn, now, mutations, projVars, taskVars>>

\* the delete failed: lines 472-475
DeleteFail(p) ==
    /\ last' = "DeleteFail"
    /\ p \in pending /\ p.kind = "delete"
    /\ alertMsg' = MsgDeleteFailed
    /\ pending' = pending \ {p}
    /\ UNCHANGED <<store, nextId, calendar, nextKey, currentScheduleId, form,
                   modal, deleteBtn, now, mutations, projVars, taskVars>>

(***************************************************************************)
(* eventDrop and eventResize                                               *)
(***************************************************************************)
MovedNot(e, t) == e

\* the event after FullCalendar moved it to start at t, its duration kept
Moved(e, t) ==
    [e EXCEPT !.start = t,
              !.end = DateOfInstant(Instant(t) + Instant(e.end) - Instant(e.start),
                                    e.end.ss)]

\* the event after FullCalendar moved its end to hm on the day it starts
Resized(e, hm) ==
    [e EXCEPT !.end = [day |-> e.start.day, hh |-> hm[1], mm |-> hm[2],
                       ss |-> e.end.ss]]

\* the user drops event e at t; FullCalendar has moved the event when it
\* calls eventDrop, which runs up to the await of the update: lines 101-116
Drop(e, t) ==
    /\ last' = ""
    /\ e \in calendar
    /\ e.start # InvalidDate /\ e.end # InvalidDate
    /\ t # e.start
    /\ CanIssue
    /\ calendar' = (calendar \ {e}) \cup { Moved(e, t) }
    /\ mutations' = mutations + 1
    /\ pending' = pending \cup
          { [Call("drop") EXCEPT !.seq = mutations + 1,
                                 !.id = e.scheduleId,
                                 !.dayNum = getDay(Moved(e, t).start),
                                 !.start = formatTime(Moved(e, t).start),
                                 !.end = formatTime(Moved(e, t).end),
                                 !.snap = e] }
    /\ alertMsg' = ""
    /\ UNCHANGED <<store, nextId, nextKey, currentScheduleId, form, modal,
                   deleteBtn, now, projVars, taskVars>>

\* the update of the drop succeeded: lines 118-120. showSuccess is called
\* with the message as its only argument, the element id
DropOk(p) ==
    /\ last' = "DropOk"
    /\ p \in pending /\ p.kind = "drop"
    /\ store' = StoreUpdateDrop(store, p)
    /\ pending' = pending \ {p}
    /\ alertMsg' = showSuccess(MsgUpdated, "")
    /\ UNCHANGED <<nextId, calendar, nextKey, currentScheduleId, form, modal,
                   deleteBtn, now, mutations, projVars, taskVars>>

\* the user drags the end of event e to hm: lines 127-138
Resize(e, hm) ==
    /\ last' = ""
    /\ e \in calendar
    /\ e.start # InvalidDate /\ e.end # InvalidDate
    /\ Resized(e, hm) # e
    /\ Instant(Resized(e, hm).end) > Instant(e.start)
    /\ CanIssue
    /\ calendar' = (calendar \ {e}) \cup { Resized(e, hm) }
    /\ mutations' = mutations + 1
    /\ pending' = pending \cup
          { [Call("resize") EXCEPT !.seq = mutations + 1,
                                   !.id = e.scheduleId,
                                   !.end = formatTime(Resized(e, hm).end),
                                   !.snap = e] }
    /\ alertMsg' = ""
    /\ UNCHANGED <<store, nextId, nextKey, currentScheduleId, form, modal,
                   deleteBtn, now, projVars, taskVars>>

\* the update of the resize succeeded: lines 140-142
ResizeOk(p) ==
    /\ last' = "ResizeOk"
    /\ p \in pending /\ p.kind = "resize"
    /\ store' = StoreUpdateResize(store, p)
    /\ pending' = pending \ {p}
    /\ alertMsg' = showSuccess(MsgUpdated, "")
    /\ UNCHANGED <<nextId, calendar, nextKey, currentScheduleId, form, modal,
                   deleteBtn, now, mutations, projVars, taskVars>>

MoveFailNoRevert(p) ==
    /\ last' = IF p.kind = "drop" THEN "DropFail" ELSE "ResizeFail"
    /\ p \in pending /\ p.kind \in {"drop", "resize"}
    /\ pending' = pending \ {p}
    /\ alertMsg' = ""
    /\ UNCHANGED <<store, nextId, calendar, nextKey, currentScheduleId, form,
                   modal, deleteBtn, now, mutations, projVars, taskVars>>

\* the update of a drop or of a resize failed: lines 121-125 and 143-147.
\* showError is called with the message as its only argument, the element id
MoveFail(p) ==
    /\ last' = IF p.kind = "drop" THEN "DropFail" ELSE "ResizeFail"
    /\ p \in pending /\ p.kind \in {"drop", "resize"}
    /\ calendar' = Revert(calendar, p.snap)
    /\ pending' = pending \ {p}
    /\ alertMsg' = showError(MsgUpdateFailed, "")
    /\ UNCHANGED <<store, nextId, nextKey, currentScheduleId, form, modal,
                   deleteBtn, now, mutations, projVars, taskVars>>

(***************************************************************************)
(* The specification of the schedule page.                                 *)
(***************************************************************************)
Next ==
    \/ \E p \in pending : LoadOk(p)
    \/ \E p \in pending : LoadFail(p)
    \/ \E e \in calendar : OpenEdit(e)
    \/ OpenAdd
    \/ \E slot \in SelectSlots : Select(slot)
    \/ CloseModal
    \/ \E in \in FormInputs : Submit(in)
    \/ \E p \in pending : SubmitNoUser(p)
    \/ \E p \in pending : SubmitResume(p)
    \/ \E p \in pending : UpdateOk(p)
    \/ \E p \in pending : InsertOk(p)
    \/ \E p \in pending : SaveFail(p)
    \/ \E e \in calendar, c1, c2 \in BOOLEAN : DeleteIconClick(e, c1, c2)
    \/ \E c \in BOOLEAN : DeleteButtonClick(c)
    \/ \E p \in pending : DeleteOk(p)
    \/ \E p \in pending : DeleteFail(p)
    \/ \E e \in calendar, t \in DropTargets : Drop(e, t)
    \/ \E p \in pending : DropOk(p)
    \/ \E e \in calendar, hm \in ResizeEnds : Resize(e, hm)
    \/ \E p \in pending : ResizeOk(p)
    \/ \E p \in pending : MoveFail(p)

Spec == Init /\ [][Next]_vars

\* the page when the table holds a row of the user without a start time
InitBad == InitWith(InitStore \cup {BadRow})

SpecBad == InitBad /\ [][Next]_vars

(***************************************************************************)
(* The projection on its own: an entry (day, start and end time as the     *)
(* form or the table holds them) and a reference date are drawn, and the   *)
(* occurrence is computed as lines 411-420 and 264-273 compute it.         *)
(***************************************************************************)
RefDates ==
    { [day |-> FirstRefDay + i, hh |-> t[1], mm |-> t[2], ss |-> t[3]] :
        i \in 0..RefSpan, t \in { <<0, 0, 0>>, <<10, 15, 30>>, <<23, 59, 59>> } }

ProjTimes ==
    { <<T0900, T1030>>, <<T1400, T1530>>, <<T1030, T1100>>, <<T0000, T2359>> }

ProjInputs ==
    { [day |-> <<d>>, start |-> t[1], end |-> t[2], ref |-> r] :
        d \in 0..6, t \in ProjTimes, r \in RefDates }

\* entries the form and the table cannot hold after validation, and entries
\* with a time that does not parse: the projection takes them all the same
InvalidInputs ==
    { [day |-> d, start |-> t[1], end |-> t[2], ref |-> r] :
        d \in { <<7>>, <<9>>, EmptyStr }, t \in { <<T0900, T1030>> },
        r \in RefDates }
    \cup
    { [day |-> <<d>>, start |-> t[1], end |-> t[2], ref |-> r] :
        d \in {1, 3},
        t \in { <<EmptyStr, T1030>>, <<T0900, <<Colon>>>>, <<<<9>>, T1030>> },
        r \in RefDates }

\* the page at the moment `now' for the entry and reference date drawn
InitProjFrom(inputs) ==
    /\ store = InitStore
    /\ nextId = 4
    /\ calendar = {}
    /\ nextKey = 1
    /\ currentScheduleId = NoId
    /\ form = EmptyForm
    /\ modal = FALSE
    /\ deleteBtn = FALSE
    /\ pending = {}
    /\ alertMsg = ""
    /\ mutations = 0
    /\ last = ""
    /\ pIn \in inputs
    /\ now = pIn.ref
    /\ pOut = NoOccurrence
    /\ pPrev = NoOccurrence
    /\ pTrip = NoOccurrence
    /\ TasksIdle

InitProj == InitProjFrom(ProjInputs)

\* the occurrence lines 411-420 and 264-273 compute for the entry
Projected ==
    [start |-> ProjectStart(parseInt(pIn.day), pIn.start, pIn.ref),
     end   |-> ProjectEnd(parseInt(pIn.day), pIn.end, pIn.ref),
     done  |-> TRUE]

Project ==
    /\ ~pOut.done
    /\ pOut' = Projected
    /\ UNCHANGED <<pIn, pPrev, pTrip, mainVars, taskVars>>

\* a second call that moves the date the first call returned by the same
\* distance again
ProjectAgainAccumulating ==
    /\ pOut.done /\ ~pPrev.done
    /\ pPrev' = pOut
    /\ LET moved == AddDays(ResetTime(pOut.start),
                            parseInt(pIn.day) - getDay(pIn.ref))
       IN pOut' = [start |-> setHours(moved, parseInt(Part0(pIn.start)),
                                      parseInt(Part1(pIn.start))),
                   end   |-> setHours(moved, parseInt(Part0(pIn.end)),
                                      parseInt(Part1(pIn.end))),
                   done  |-> TRUE]
    /\ UNCHANGED <<pIn, pTrip, mainVars, taskVars>>

\* the entry is projected a second time, for the same reference date
ProjectAgain ==
    /\ pOut.done /\ ~pPrev.done
    /\ pPrev' = pOut
    /\ pOut' = Projected
    /\ UNCHANGED <<pIn, pTrip, mainVars, taskVars>>

\* the create call handleScheduleSubmit issues for the entry (lines 387-400)
CreateCall ==
    [Call("insert") EXCEPT !.user = User, !.name = "Databases",
                           !.day = pIn.day, !.start = pIn.start,
                           !.end = pIn.end]

\* the entry is created, listed back and projected by loadUserSchedule
ListBack ==
    /\ ~pTrip.done
    /\ LET e == LoadEvent(InsertedRow(CreateCall, nextId), nextKey) IN
       pTrip' = [start |-> e.start, end |-> e.end, done |-> TRUE]
    /\ UNCHANGED <<pIn, pOut, pPrev, mainVars, taskVars>>

NextProj == Project \/ ProjectAgain \/ ListBack

SpecProj == InitProj /\ [][NextProj]_vars

\* the projection of entries of any shape
InitProjAny == InitProjFrom(ProjInputs \cup InvalidInputs)

SpecProjAny == InitProjAny /\ [][NextProj]_vars

(***************************************************************************)
(* The tasks page (tasks.js): the completion checkbox of a task.           *)
(***************************************************************************)
TaskIds == {1, 2}

\* the tasks are listed and rendered: lines 62-72 and 83-123
InitTask ==
    /\ store = InitStore
    /\ nextId = 4
    /\ calendar = {}
    /\ nextKey = 1
    /\ currentScheduleId = NoId
    /\ form = EmptyForm
    /\ modal = FALSE
    /\ deleteBtn = FALSE
    /\ pending = {}
    /\ alertMsg = ""
    /\ now = NowMain
    /\ mutations = 0
    /\ last = ""
    /\ pIn = [day |-> 0, start |-> EmptyStr, end |-> EmptyStr, ref |-> NowMain]
    /\ pOut = NoOccurrence
    /\ pPrev = NoOccurrence
    /\ pTrip = NoOccurrence
    /\ tasks \in [TaskIds -> BOOLEAN]
    /\ taskItems = Rendered(tasks)
    /\ taskCalls = {}
    /\ toggles = 0

\* the user clicks the checkbox of task id; the browser has flipped it when
\* handleTaskCompletion runs up to the await of the update: lines 277-284.
\* was is history: the item as it was before the click
ToggleTask(id) ==
    /\ toggles < MaxToggles
    /\ last' = ""
    /\ toggles' = toggles + 1
    /\ taskItems' = [taskItems EXCEPT ![id].checked = ~@]
    /\ taskCalls' = taskCalls \cup
          { [id |-> id, completed |-> ~taskItems[id].checked,
             seq |-> toggles + 1, was |-> taskItems[id]] }
    /\ UNCHANGED <<tasks, store, nextId, calendar, nextKey, currentScheduleId,
                   form, modal, deleteBtn, pending, alertMsg, now, mutations,
                   projVars>>

\* the update succeeded: lines 286-295
ToggleOk(p) ==
    /\ p \in taskCalls
    /\ last' = "ToggleOk"
    /\ tasks' = [tasks EXCEPT ![p.id] = p.completed]
    /\ taskItems' = [taskItems EXCEPT ![p.id].styled = p.completed]
    /\ taskCalls' = taskCalls \ {p}
    /\ UNCHANGED <<toggles, store, nextId, calendar, nextKey,
                   currentScheduleId, form, modal, deleteBtn, pending,
                   alertMsg, now, mutations, projVars>>

ToggleFailNoRevert(p) ==
    /\ p \in taskCalls
    /\ last' = "ToggleFail"
    /\ taskCalls' = taskCalls \ {p}
    /\ UNCHANGED <<tasks, taskItems, toggles, store, nextId, calendar, nextKey,
                   currentScheduleId, form, modal, deleteBtn, pending,
                   alertMsg, now, mutations, projVars>>

\* the update failed: lines 286 and 296-300
ToggleFail(p) ==
    /\ p \in taskCalls
    /\ last' = "ToggleFail"
    /\ taskItems' = [taskItems EXCEPT ![p.id].checked = ~p.completed]
    /\ taskCalls' = taskCalls \ {p}
    /\ UNCHANGED <<tasks, toggles, store, nextId, calendar, nextKey,
                   currentScheduleId, form, modal, deleteBtn, pending,
                   alertMsg, now, mutations, projVars>>

NextTask ==
    \/ \E id \in TaskIds : ToggleTask(id)
    \/ \E p \in taskCalls : ToggleOk(p)
    \/ \E p \in taskCalls : ToggleFail(p)

SpecTask == InitTask /\ [][NextTask]_vars

\* p is the update of its task that was issued first among those awaited
Oldest(p) == \A q \in taskCalls : q.id = p.id => p.seq <= q.seq

\* the tasks page when the updates of a task are answered in the order in
\* which they were issued
NextTaskInOrder ==
    \/ \E id \in TaskIds : ToggleTask(id)
    \/ \E p \in taskCalls : Oldest(p) /\ ToggleOk(p)
    \/ \E p \in taskCalls : Oldest(p) /\ ToggleFail(p)

SpecTaskInOrder == InitTask /\ [][NextTaskInOrder]_vars

(***************************************************************************)
(* Properties.                                                             *)
(***************************************************************************)
\* calls that have just been issued by the step
Issued == pending' \ pending

\* C1 (rollback on failure): when the remote update of a drag-move or of a
\* resize fails, the calendar afterwards holds the event exactly as it was
\* before that interaction (the snapshot taken from the calendar when the
\* interaction started), in every field; a failing update of a form edit,
\* which was not applied locally, leaves the calendar as it is.
RollbackOnFailure ==
    [][ /\ \A q \in Issued :
              q.kind \in {"drop", "resize"} =>
                  q.snap \in calendar /\ q.snap.scheduleId = q.id
        /\ \A p \in pending :
              /\ MoveFail(p) =>
                    /\ p.snap \in calendar'
                    /\ \A e \in calendar' : e.key = p.snap.key => e = p.snap
              /\ (SaveFail(p) /\ p.kind = "update") => calendar' = calendar
      ]_vars

\* C1 witness: the update of a drag-move failed and the event is back on
\* Monday 09:00-10:30
RollbackWitness ==
    /\ last = "DropFail"
    /\ \E e \in calendar :
          /\ e.scheduleId = 1
          /\ getDay(e.start) = 1
          /\ formatTime(e.start) = T0900
          /\ formatTime(e.end) = T1030

MutationKinds == {"update", "delete", "drop", "resize"}

\* C2 (single in-flight mutation): at no time are two remote update or
\* delete calls for the same entry pending together, a second request for
\* the entry being rejected while the first is pending.
SingleInFlightPerEntry ==
    \A p, q \in pending :
        (p.kind \in MutationKinds /\ q.kind \in MutationKinds /\ p.id = q.id)
            => p = q

\* C3 (projection correctness): the projected start has the weekday of the
\* entry, lies d - weekday(r) days from the reference date r, and carries
\* the entry's start and end time on a time part reset to zero.
ProjectionCorrect ==
    pOut.done =>
        LET d == parseInt(pIn.day) IN
        /\ getDay(pOut.start) = d
        /\ pOut.start.day = pIn.ref.day + (d - getDay(pIn.ref))
        /\ formatTime(pOut.start) = pIn.start /\ pOut.start.ss = 0
        /\ formatTime(pOut.end) = pIn.end /\ pOut.end.ss = 0

\* C3 witness: an entry projected to a weekday before the reference date's,
\* from a reference date with a time part
ProjectionWitness ==
    /\ pOut.done
    /\ parseInt(pIn.day) < getDay(pIn.ref)
    /\ pIn.ref.ss # 0

Abs(n) == IF n < 0 THEN -n ELSE n

\* C4 (same-week projection): the projected date lies in the Sunday-anchored
\* week of the reference date, at most 6 days from it; day 1, 09:00-10:30,
\* projected against a Wednesday is the Monday of that week, 09:00-10:30.
SameWeekProjection ==
    pOut.done =>
        /\ WeekOf(pOut.start) = WeekOf(pIn.ref)
        /\ WeekOf(pOut.end) = WeekOf(pIn.ref)
        /\ Abs(pOut.start.day - pIn.ref.day) <= 6
        /\ (pIn.day = <<1>> /\ pIn.start = T0900 /\ pIn.end = T1030
              /\ getDay(pIn.ref) = 3)
            => /\ pOut.start = [day |-> pIn.ref.day - 2, hh |-> 9, mm |-> 0,
                                ss |-> 0]
               /\ pOut.end = [day |-> pIn.ref.day - 2, hh |-> 10, mm |-> 30,
                              ss |-> 0]

\* C4 witness: the Monday entry projected against a Wednesday
SameWeekWitness ==
    /\ pOut.done
    /\ pIn.day = <<1>> /\ pIn.start = T0900 /\ pIn.end = T1030
    /\ getDay(pIn.ref) = 3
    /\ getDay(pOut.start) = 1

\* a required field of the form is empty
SomeRequiredEmpty ==
    form.name = "" \/ form.day = EmptyStr \/ form.start = EmptyStr
        \/ form.end = EmptyStr

\* C5 (create validation): when the submit handler reads a form in which
\* title, day, start time or end time is empty, it shows the validation
\* message and ends: the calendar, the table and currentScheduleId are
\* unchanged and no insert or update call is issued.
CreateValidation ==
    [][ \A p \in pending :
            (SubmitResume(p) /\ SomeRequiredEmpty) =>
                /\ alertMsg' = MsgRequired
                /\ calendar' = calendar
                /\ store' = store
                /\ currentScheduleId' = currentScheduleId
                /\ pending' = pending \ {p}
      ]_vars

\* C5 witness: a create form with only the title empty has just been
\* rejected
CreateValidationWitness ==
    /\ last = "SubmitResume"
    /\ alertMsg = MsgRequired
    /\ form.id = NoId
    /\ form.name = ""
    /\ form.day # EmptyStr /\ form.start # EmptyStr /\ form.end # EmptyStr

\* C6 (time-order validation): no insert or update call issued by the form
\* carries a start time that is not lexicographically less than its end time.
TimeOrderValidated ==
    \A p \in pending :
        p.kind \in {"insert", "update"} => StrLess(p.start, p.end)

CreateCommit ==
    [][ \A p \in pending :
            InsertOk(p) =>
                LET new == store' \ store IN
                /\ Cardinality(new) = 1
                /\ \A r \in new :
                      /\ r.id # NoId
                      /\ \A o \in store : o.id # r.id
                      /\ Cardinality({ e \in calendar' : e.id = r.id }) = 1
                      /\ \A e \in calendar' \ calendar :
                            e.id = r.id /\ e.scheduleId = r.id
                /\ Cardinality(calendar' \ calendar) = 1
                /\ { e \in calendar' : e.id = NoId }
                       = { e \in calendar : e.id = NoId }
      ]_vars

\* C8 witness: a create has just succeeded while another entry was the
\* active one, and the new event carries the new row's id
CreateCommitWitness ==
    /\ last = "InsertOk"
    /\ \E r \in store :
          /\ r.id >= 4
          /\ currentScheduleId = r.id
          /\ \E e \in calendar : e.id = r.id /\ e.title = r.class_name

\* C9 (create rollback): no step of a create that fails changes the calendar
\* (submit, issue of the remote create, failure), so no event of the failed
\* entry exists; the failure leaves the table unchanged and shows the
\* save-failed message.
CreateRollback ==
    [][ /\ (\E in \in FormInputs : Submit(in)) => calendar' = calendar
        /\ \A p \in pending :
              /\ SubmitResume(p) => calendar' = calendar
              /\ (SaveFail(p) /\ p.kind = "insert") =>
                    /\ calendar' = calendar
                    /\ store' = store
                    /\ alertMsg' = MsgSaveFailed
                    /\ currentScheduleId' = currentScheduleId
      ]_vars

\* C9 witness: a remote create has just failed
CreateRollbackWitness ==
    /\ last = "InsertFail"
    /\ alertMsg = MsgSaveFailed
    /\ \A r \in store : r.id < 4

\* the event shows what call q sent to the table
Shows(e, q) ==
    /\ formatTime(e.end) = q.end
    /\ q.kind = "drop" => getDay(e.start) = q.dayNum /\ formatTime(e.start) = q.start
    /\ q.kind = "update" =>
          /\ e.title = q.name
          /\ getDay(e.start) = parseInt(q.day)
          /\ formatTime(e.start) = q.start

OthersUntouched(id) ==
    { e \in calendar' : e.id # id } = { e \in calendar : e.id # id }

\* C11 (update commit): the step in which the remote update of a full edit
\* of an existing entry succeeds leaves exactly one event with that entry's
\* id, showing the submitted title, day, start and end, and adds, removes or
\* re-keys no event of another id.
UpdateCommit ==
    [][ \A p \in pending :
            (UpdateOk(p) /\ \E r \in store : r.id = p.id) =>
                /\ Cardinality({ e \in calendar' : e.id = p.id }) = 1
                /\ \A e \in calendar' : e.id = p.id => Shows(e, p)
                /\ OthersUntouched(p.id)
      ]_vars

\* C12 (drag/resize revert): the snapshot a drag-move or a resize keeps is
\* the event as it was before that interaction; when its remote update
\* fails, the failure continuation runs once (the call is gone afterwards)
\* and leaves exactly one event under the snapshot's internal key, with the
\* day, start and end of the snapshot, every other event as it was; a
\* successful update reverts nothing.
RevertOnMoveFailure ==
    [][ /\ \A q \in Issued :
              q.kind \in {"drop", "resize"} =>
                  \E e \in calendar :
                      /\ e.key = q.snap.key
                      /\ e.start = q.snap.start /\ e.end = q.snap.end
        /\ \A p \in pending :
              /\ MoveFail(p) =>
                    /\ Cardinality({ e \in calendar' : e.key = p.snap.key }) = 1
                    /\ \A e \in calendar' :
                          e.key = p.snap.key =>
                              e.start = p.snap.start /\ e.end = p.snap.end
                    /\ \A e \in calendar : e.key # p.snap.key => e \in calendar'
                    /\ p \notin pending'
              /\ (DropOk(p) \/ ResizeOk(p)) =>
                    calendar' = calendar /\ p \notin pending'
      ]_vars

\* C12 witness: the move of entry 1 from Monday 09:00 to Wednesday 14:00 has
\* failed; its event is the only one and is back on Monday 09:00-10:30, and
\* the row was not changed
RevertWitness ==
    /\ last = "DropFail"
    /\ pending = {}
    /\ Cardinality(calendar) = 1
    /\ \A e \in calendar :
          e.start = SlotDate(1, 9, 0) /\ e.end = SlotDate(1, 10, 30)
    /\ \E r \in store : r.id = 1 /\ r.day = 1 /\ r.start_time = T0900

\* C13 (delete success): the step in which the remote delete of an entry
\* succeeds leaves no event with that entry's id and leaves the events of
\* every other id as they were, whatever the user did while the delete was
\* pending.
DeleteCommit ==
    [][ \A p \in pending :
            DeleteOk(p) =>
                /\ \A e \in calendar' : e.id # p.id
                /\ OthersUntouched(p.id)
      ]_vars

\* C14 (delete is not optimistic): the step that issues a remote delete
\* leaves the calendar and the table as they are, and the step in which the
\* remote delete fails leaves both as they are and shows the delete-failed
\* message.
DeleteNotOptimistic ==
    [][ /\ (\E q \in Issued : q.kind = "delete") =>
              calendar' = calendar /\ store' = store
        /\ \A p \in pending :
              DeleteFail(p) =>
                  /\ calendar' = calendar
                  /\ store' = store
                  /\ alertMsg' = MsgDeleteFailed
      ]_vars

\* C14 witness: the remote delete of entry 1 has just failed; its event and
\* its row are still there
DeleteFailedWitness ==
    /\ last = "DeleteFail"
    /\ alertMsg = MsgDeleteFailed
    /\ \E e \in calendar : e.id = 1
    /\ \E r \in store : r.id = 1

\* C15 (delete precondition): a delete requested with the button of the form
\* while no entry is active or not confirmed, and a delete requested with
\* the icon of an event and not confirmed in both dialogs, issue no remote
\* call and leave the calendar and currentScheduleId as they are.
DeletePrecondition ==
    [][ /\ \A c \in BOOLEAN :
              (DeleteButtonClick(c) /\ (currentScheduleId = NoId \/ ~c)) =>
                  /\ pending' = pending
                  /\ calendar' = calendar
                  /\ currentScheduleId' = currentScheduleId
        /\ \A e \in calendar, c1, c2 \in BOOLEAN :
              (DeleteIconClick(e, c1, c2) /\ ~(c1 /\ c2)) =>
                  /\ pending' = pending
                  /\ calendar' = calendar
                  /\ currentScheduleId' = currentScheduleId
      ]_vars

\* C16 (registry uniqueness): in every reachable state the calendar holds at
\* most one event per entry id.
RegistryUniqueness ==
    \A e1, e2 \in calendar : (e1.id # NoId /\ e1.id = e2.id) => e1 = e2

\* the entry a pending remote call is about; a create is about the row the
\* table is going to add
EntryOf(p) == IF p.kind = "insert" THEN nextId ELSE p.id

\* the step is the resolution, successful or not, of the remote mutation p
ResolvesMutation(p) ==
    \/ UpdateOk(p) \/ InsertOk(p) \/ SaveFail(p)
    \/ DeleteOk(p) \/ DeleteFail(p)
    \/ DropOk(p) \/ ResizeOk(p) \/ MoveFail(p)

\* the remote mutation of another entry is or was pending together with p:
\* it still is, or it was a create that succeeded in the step before
InFlightWithOther(p) ==
    \/ \E q \in pending \ {p} :
          /\ q.kind \in MutationKinds \cup {"insert"}
          /\ EntryOf(q) # EntryOf(p) \/ q.kind = "insert" \/ p.kind = "insert"
    \/ last = "InsertOk"

\* C17 (independence across ids): when the remote mutations of two
\* different entries are pending together, the resolution of the one adds,
\* removes or changes no event of another entry's id.
IndependentResolution ==
    [][ \A p \in pending :
            (ResolvesMutation(p) /\ InFlightWithOther(p)) =>
                { e \in calendar' : e.id \notin {EntryOf(p), NoId} }
                    = { e \in calendar : e.id \notin {EntryOf(p), NoId} }
      ]_vars

\* C18 (active context lifecycle): opening the edit form of an event sets
\* currentScheduleId to its entry's id, opening a create form (add button
\* or slot selection) sets it to null, and it is null after every cancel
\* (close button), commit (update, create or delete succeeded) and failure
\* (save or delete failed) of the form.
ActiveContextLifecycle ==
    [][ /\ \A e \in calendar : OpenEdit(e) => currentScheduleId' = e.scheduleId
        /\ OpenAdd => currentScheduleId' = NoId
        /\ (\E slot \in SelectSlots : Select(slot)) => currentScheduleId' = NoId
        /\ CloseModal => currentScheduleId' = NoId
        /\ \A p \in pending :
              (UpdateOk(p) \/ InsertOk(p) \/ DeleteOk(p) \/ SaveFail(p)
                  \/ DeleteFail(p)) => currentScheduleId' = NoId
      ]_vars

\* C19 (every store failure is surfaced): the step in which a remote call
\* fails (the list, a create or a form update, the update of a drag-move or
\* of a resize, a delete) shows a message to the user.
FailuresSurfaced ==
    [][ \A p \in pending :
            (LoadFail(p) \/ SaveFail(p) \/ MoveFail(p) \/ DeleteFail(p)) =>
                alertMsg' # ""
      ]_vars

(***************************************************************************)
(* Progress: every awaited call settles, so the continuation of every      *)
(* pending call eventually runs.                                           *)
(***************************************************************************)
\* the continuation of the pending call of attempt s runs
Resolve(s) ==
    \E p \in pending :
        /\ p.seq = s
        /\ \/ LoadOk(p) \/ LoadFail(p)
           \/ SubmitNoUser(p) \/ SubmitResume(p)
           \/ ResolvesMutation(p)

\* the page with at most MaxLiveMutations attempts
NextLive == Next /\ mutations' <= MaxLiveMutations

SpecLive ==
    /\ Init /\ [][NextLive]_vars
    /\ \A s \in 0..MaxLiveMutations : WF_vars(Resolve(s))

RemoteKinds == {"insert", "update", "delete", "drop", "resize"}

\* the remote call of attempt s is pending
Persisting(s) == \E p \in pending : p.seq = s /\ p.kind \in RemoteKinds

\* attempt s has no call pending
Ended(s) == \A p \in pending : p.seq # s

CommittedNames == {"InsertOk", "UpdateOk", "DeleteOk", "DropOk", "ResizeOk"}

RolledBackNames ==
    {"InsertFail", "UpdateFail", "DeleteFail", "DropFail", "ResizeFail"}

CancelEffectFree ==
    [][ ( \/ CloseModal
          \/ OpenAdd
          \/ \E slot \in SelectSlots : Select(slot)
          \/ \E e \in calendar : OpenEdit(e) ) =>
            /\ pending' = pending
            /\ calendar' = calendar
            /\ store' = store
      ]_vars

\* C21 witness: the edit form of entry 1 was opened and closed again with
\* nothing submitted; the event is still there
CancelWitness ==
    /\ ~modal
    /\ form.id = 1
    /\ mutations = 0
    /\ pending = {}
    /\ \E e \in calendar : e.id = 1

\* C22 (occurrence day invariant): for an entry with a day of the week in
\* 0..6 and start and end times of the form HH:MM, the projected start and
\* end lie on the same calendar day, and the weekday of that day is the
\* entry's day of the week.
OccurrenceDay ==
    pOut.done =>
        /\ pOut.start.day = pOut.end.day
        /\ getDay(pOut.start) = parseInt(pIn.day)
        /\ getDay(pOut.end) = parseInt(pIn.day)

\* C22 witness: a Saturday entry from 00:00 to 23:59 projected against a
\* Sunday
OccurrenceDayWitness ==
    /\ pOut.done
    /\ parseInt(pIn.day) = 6
    /\ pIn.start = T0000 /\ pIn.end = T2359
    /\ getDay(pIn.ref) = 0
    /\ pOut.end.hh = 23

\* C23 (round trip): an entry created with start time s and end time e,
\* listed back from the table and projected by the load for the same week,
\* gives an occurrence that starts at s and ends at e (hour and minute) on
\* the entry's day of the week; it is the occurrence the create displayed.
RoundTrip ==
    pTrip.done =>
        /\ formatTime(pTrip.start) = pIn.start
        /\ formatTime(pTrip.end) = pIn.end
        /\ getDay(pTrip.start) = parseInt(pIn.day)
        /\ getDay(pTrip.end) = parseInt(pIn.day)
        /\ pOut.done => pTrip.start = pOut.start /\ pTrip.end = pOut.end

\* C23 witness: a Friday entry from 14:00 to 15:30 has been displayed by the
\* create and listed back
RoundTripWitness ==
    /\ pTrip.done /\ pOut.done
    /\ pIn.day = <<5>> /\ pIn.start = T1400 /\ pIn.end = T1530
    /\ pTrip.start.hh = 14 /\ pTrip.end.mm = 30

ValidTime(t) ==
    /\ Len(t) = 5
    /\ t[3] = Colon
    /\ \A i \in {1, 2, 4, 5} : t[i] \in 0..9
    /\ t[1] * 10 + t[2] < 24
    /\ t[4] * 10 + t[5] < 60

ValidEntry(in) ==
    /\ parseInt(in.day) \in 0..6
    /\ ValidTime(in.start)
    /\ ValidTime(in.end)

\* C25 (projector input errors): for an entry whose day of the week is
\* outside 0..6 or whose start or end time is not of the form HH:MM, the
\* projection produces no occurrence: neither a start date nor an end date.
ProjectorRejectsInvalid ==
    (pOut.done /\ ~ValidEntry(pIn)) =>
        pOut.start = InvalidDate /\ pOut.end = InvalidDate

\* C26 (load resilience): when the list returns, an event is added for
\* every listed row that is structurally valid, whatever other rows the
\* list holds.
LoadResilient ==
    [][ \A p \in pending :
            LoadOk(p) =>
                \A r \in store :
                    (r.user_id = p.user /\ ~MapThrows(r)) =>
                        \E e \in calendar' \ calendar : e.id = r.id
      ]_vars

\* the value of column f before the change call p asks for: of a drag or a
\* resize, what the event showed before the move; of a form edit, what the
\* edited row holds
PreValue(p, f) ==
    IF p.kind \in {"drop", "resize"}
    THEN CASE f = "day" -> getDay(p.snap.start)
           [] f = "start_time" -> formatTime(p.snap.start)
           [] f = "end_time" -> formatTime(p.snap.end)
    ELSE (CHOOSE r \in store : r.id = p.id)[f]

\* C27 as stated (minimal update payload): every field a newly issued
\* remote update carries differs from its value before the change.
MinimalPayload ==
    [][ \A p \in pending' \ pending :
            (/\ p.kind \in {"update", "drop", "resize"}
             /\ p.kind = "update" => \E r \in store : r.id = p.id) =>
                \A f \in UpdateFields(p) : FieldValue(p, f) # PreValue(p, f)
      ]_vars

\* C27 (update payload, amended): a remote update carries a fixed set of
\* fields - a resize only the end time, a drag-move the day, the start time
\* and the end time, a form edit all six fields - and when it succeeds the
\* row takes the carried values and keeps every field that was not carried.
FixedPayload ==
    [][ \A p \in pending :
            (UpdateOk(p) \/ DropOk(p) \/ ResizeOk(p)) =>
                /\ { r.id : r \in store' } = { r.id : r \in store }
                /\ \A r \in store, r2 \in store' :
                      r2.id = r.id =>
                          /\ r2.user_id = r.user_id
                          /\ \A f \in Fields :
                                r2[f] = IF r.id = p.id /\ f \in UpdateFields(p)
                                        THEN FieldValue(p, f)
                                        ELSE r[f]
      ]_vars

\* a resize of entry 1 succeeded: its end time is the new one, its day and
\* start time are the ones it had
FixedPayloadWitness ==
    /\ last = "ResizeOk"
    /\ \E r \in store :
          /\ r.id = 1 /\ r.day = 1
          /\ r.start_time = T0900 /\ r.end_time = formatTime(SlotDate(1, 11, 0))

SubmitReadsAtOnce ==
    [][ (\E p \in pending : p.kind = "auth") =>
            \E p \in pending :
                p.kind = "auth" /\ (SubmitResume(p) \/ SubmitNoUser(p))
      ]_vars

\* C30 (view/store convergence for moves): when only drags and resizes have
\* changed entry 1 and every remote call has resolved, the event shown for
\* it has the day, the start time and the end time its row holds.
MoveConvergence ==
    (pending = {} /\ nextId = 4) =>
        \A e \in calendar, r \in store :
            (/\ e.id = 1 /\ r.id = 1
             /\ e.title = "Algorithms" /\ r.class_name = "Algorithms"
             /\ e.start # InvalidDate /\ e.end # InvalidDate) =>
                /\ getDay(e.start) = r.day
                /\ formatTime(e.start) = r.start_time
                /\ formatTime(e.end) = r.end_time

\* C31 (no resurrected occurrence): once every remote call has resolved, the
\* calendar holds no event for an entry whose row has been deleted - every
\* event that carries an entry's id has its row in the table.
NoResurrectedOccurrence ==
    pending = {} =>
        \A e \in calendar :
            e.id # NoId => \E r \in store : r.id = e.id

\* C32 (toggle convergence under overlap): once every update of the
\* completion toggles has resolved, in issue order, the checkbox of each
\* task shows the completed value the table holds for it.
ToggleConvergence ==
    taskCalls = {} => \A id \in TaskIds : taskItems[id].checked = tasks[id]

\* C33 (submit routing agrees with the active context): whenever the form is
\* submitted, its schedule-id field is empty exactly when currentScheduleId
\* is null, and otherwise holds the same id.
SubmitRouting ==
    [][ (\E in \in FormInputs : Submit(in)) => form.id = currentScheduleId
      ]_vars

\* C34 (edit form pre-fill): opening the edit form for an event fills day,
\* start time and end time with the values the event shows, so that the form
\* as opened passes the check of the required fields.
EditPrefill ==
    [][ \A e \in calendar :
            (OpenEdit(e) /\ e.start # InvalidDate /\ e.end # InvalidDate) =>
                /\ form'.day = NumToStr(getDay(e.start))
                /\ form'.start = formatTime(e.start)
                /\ form'.end = formatTime(e.end)
                /\ ~RequiredMissing(form')
      ]_vars

\* the row a drag writes, as the list returns it
DropRow(q) ==
    [id |-> q.id, user_id |-> User, class_name |-> "", day |-> q.dayNum,
     start_time |-> q.start, end_time |-> q.end, room |-> "",
     professor |-> ""]

\* C35 (drag round trip): the day and the HH:MM start and end a drag sends,
\* listed back and projected for the current week, give the weekday and the
\* start and end time of day of the event as displayed after the drag; and
\* a successful drag writes exactly these values to the entry's row.
DragRoundTrip ==
    [][ /\ \A e \in calendar, t \in DropTargets :
              Drop(e, t) =>
                  \A q \in pending' \ pending, shown \in calendar' \ calendar :
                      LET back == LoadEvent(DropRow(q), shown.key) IN
                          /\ getDay(back.start) = getDay(shown.start)
                          /\ back.start.hh = shown.start.hh
                          /\ back.start.mm = shown.start.mm
                          /\ back.end.hh = shown.end.hh
                          /\ back.end.mm = shown.end.mm
        /\ \A p \in pending :
              DropOk(p) =>
                  \A r \in store' :
                      r.id = p.id =>
                          /\ r.day = p.dayNum
                          /\ r.start_time = p.start
                          /\ r.end_time = p.end
      ]_vars

\* a drag of entry 1 to Wednesday 14:00 succeeded: the row holds the day and
\* the times the event shows
DragRoundTripWitness ==
    /\ last = "DropOk"
    /\ \E r \in store, e \in calendar :
          /\ r.id = 1 /\ e.scheduleId = 1
          /\ r.day = 3 /\ getDay(e.start) = 3
          /\ r.start_time = formatTime(e.start)
          /\ r.end_time = formatTime(e.end)
          /\ e.start.hh = 14 /\ e.end.mm = 30

\* C36 (ownership is fixed): in every step a row that stays in the table
\* keeps its user_id, a row that enters the table has the user_id of the
\* signed-in user, and the events a load adds are those of rows whose
\* user_id is the signed-in user.
OwnershipFixed ==
    [][ /\ \A r \in store, r2 \in store' :
              r2.id = r.id => r2.user_id = r.user_id
        /\ \A r2 \in store' :
              (\A r \in store : r.id # r2.id) => r2.user_id = User
        /\ \A p \in pending :
              LoadOk(p) =>
                  \A e \in calendar' \ calendar :
                      \E r \in store : r.id = e.id /\ r.user_id = User
      ]_vars

\* the load has registered the user's entry and not the other user's, an
\* entry has been created, and an update has succeeded
OwnershipWitness ==
    /\ last \in {"UpdateOk", "DropOk", "ResizeOk"}
    /\ \E e \in calendar : e.id = 1
    /\ \A e \in calendar : e.id # 3
    /\ \E r \in store : r.id = 4 /\ r.user_id = User
    /\ \E r \in store : r.id = 3 /\ r.user_id # User

====
